---------------------------- MODULE Spec2Model ----------------------------
(***************************************************************************)
(* SolanaAIO: a TLA+ model of the two batch programs of the repository.    *)
(*                                                                         *)
(*   BalanceTxFilter/index.js   withRetry, checkWallet, asyncPool, main    *)
(*   SolanaCollector/main.js    confirmTransactionWithTimeout, the sweep   *)
(*                              loop                                       *)
(*                                                                         *)
(* Three specifications share the module:                                  *)
(*   SpecRetry  one call of withRetry against an arbitrary fn              *)
(*   SpecScan   main of BalanceTxFilter: asyncPool over checkWallet        *)
(*   SpecSweep  main of SolanaCollector: the sequential sweep loop         *)
(* Each leaves the variables of the other two unchanged.                   *)
(***************************************************************************)
EXTENDS Integers, Sequences, FiniteSets, TLC

VARIABLES
    \* ---- SpecRetry: one call withRetry(fn, retries, initialDelay)
    retries,        \* the argument `retries`
    initialDelay,   \* the argument `initialDelay`
    retry,          \* the call's state: attempt, currentDelay, position
    fnTrace,        \* what fn did on each of its invocations, in order
    \* ---- SpecSweep: SolanaCollector/main.js
    feeConfig,      \* config.transaction_fee_sol in thousandths of a SOL (0: unset)
    keysReadable,   \* whether fs.readFileSync(KEYS_FILE_PATH) succeeds
    privateKeys,    \* the non-blank lines of the keys file
    pc,             \* where the async main function stands
    i,              \* the loop variable of the sender loop
    recipientKeypair,
    senderBalanceLamports,
    amountToSend,
    caught,         \* err of the catch block while it awaits getTransaction
    actionCount,
    transactionLog, \* what transactionLogger has written
    errorLog,       \* what errorLogger has written
    sent,           \* the calls of connection.sendTransaction, in order
    rpcLog,         \* every call of a method of connection, in order
    queried,        \* per sender line: the balance and reserve the RPC returned
    timer,          \* per sender line: the setTimeout of its confirmation
    poll,           \* per sender line: its connection.confirmTransaction
    promise,        \* per sender line: the promise of confirmTransactionWithTimeout
    events,         \* per sender line: poll and timer events in the order they ran
    exitCode,       \* the process exit status, -1 while it runs
    \* ---- SpecScan: BalanceTxFilter/index.js
    scanConfig,     \* min_balance_sol (in thousandths of a SOL),
                    \* transaction_count_range, max_concurrent_requests
    walletsReadable, \* whether fs.readFile(wallets_file_path) succeeds
    walletList,     \* the non-blank lines of the wallets file
    scanPc,         \* where the async main function (inside asyncPool) stands
    nextItem,       \* how many items the for..of of asyncPool has taken
    ret,            \* asyncPool's ret: the promises p, by item number
    executing,      \* asyncPool's executing: the promises e, by item number
    p,              \* per item: the promise p, its state and value
    e,              \* per item: the promise e = p.then(...)
    raceWatch,      \* the promises the pending Promise.race waits for
    allState,       \* Promise.all(ret): none, pending or settled
    firstSettled,   \* the item whose p settled first, 0 before that
    microtasks,     \* the queue of promise jobs
    task,           \* per item: the call of checkWallet
    results,        \* the array asyncPool resolved to
    fileWrites,     \* the contents written to filteredWallets.json, in order
    scanTransactionLog, \* the entries transactionLogger has written
    scanErrorLog,   \* the entries errorLogger has written
    rateLimited,    \* the items with a request the RPC node answered with 429
    answers,        \* per item: the balance and the count the RPC node returned
    scanExitCode    \* the process exit status, -1 while it runs

retryVars == <<retries, initialDelay, retry, fnTrace>>

sweepVars ==
    <<feeConfig, keysReadable, privateKeys, pc, i, recipientKeypair,
      senderBalanceLamports, amountToSend, caught, actionCount,
      transactionLog, errorLog, sent, rpcLog, queried, timer, poll, promise,
      events, exitCode>>

scanVars ==
    <<scanConfig, walletsReadable, walletList, scanPc, nextItem, ret, executing,
      p, e, raceWatch, allState, firstSettled, microtasks, task, results, fileWrites,
      scanTransactionLog, scanErrorLog, rateLimited, answers, scanExitCode>>

vars == <<retryVars, sweepVars, scanVars>>

-----------------------------------------------------------------------------
(* Bounds of the model *)

\* largest `retries` argument tried in SpecRetry
MaxRetriesArg == 5

\* longest keys file (lines) tried in SpecSweep
MaxKeys == 3

\* longest wallets file (lines) and largest max_concurrent_requests tried in
\* SpecScan
MaxWallets == 2
MaxPoolLimit == 2

-----------------------------------------------------------------------------
(* withRetry: src/BalanceTxFilter/index.js 37-55 *)

\* the defaults of withRetry's parameters
DefaultRetries == 5
DefaultInitialDelay == 500

\* the message of the error thrown after the loop
MaxRetryMessage == "Maximum retry attempts reached"

\* String.prototype.includes: needle occurs in hay as a contiguous substring
Includes(hay, needle) ==
    \E k \in 1..(Len(hay) - Len(needle) + 1) :
        SubSeq(hay, k, k + Len(needle) - 1) = needle

\* error.message.includes('429')
IsRateLimited(message) == Includes(message, "429")

\* what an invocation of fn can do: resolve with a value or reject with an
\* Error carrying a message
FnValues == {7, 8}
FnMessages == {"429 Too Many Requests", "failed with status 429", "fetch failed"}
FnOutcomes ==
    [ok : {TRUE}, value : FnValues, message : {""}]
        \cup [ok : {FALSE}, value : {0}, message : FnMessages]

\* the while test, then either `return await fn()` (fn is invoked) or the
\* throw after the loop
WithRetryLoop_OffByOne(s, n) ==
    IF s.attempt <= n
    THEN [s EXCEPT !.pc = "calling", !.calls = @ + 1]
    ELSE [s EXCEPT !.pc = "thrown", !.error = MaxRetryMessage]

WithRetryLoop(s, n) ==
    IF s.attempt < n
    THEN [s EXCEPT !.pc = "calling", !.calls = @ + 1]
    ELSE [s EXCEPT !.pc = "thrown", !.error = MaxRetryMessage]

\* entry of withRetry: attempt = 0, currentDelay = initialDelay, first test
WithRetry(n, delay) ==
    WithRetryLoop([attempt |-> 0, currentDelay |-> delay, pc |-> "calling",
                   calls |-> 0, waits |-> <<>>, value |-> 0, error |-> ""], n)

\* fn() settles: return its value, or catch: a 429 starts the setTimeout of
\* currentDelay, anything else is rethrown
WithRetryFnSettles_RetryAll(s, outcome) ==
    IF outcome.ok
    THEN [s EXCEPT !.pc = "returned", !.value = outcome.value]
    ELSE [s EXCEPT !.pc = "sleeping", !.waits = Append(@, s.currentDelay)]

WithRetryFnSettles(s, outcome) ==
    IF outcome.ok
    THEN [s EXCEPT !.pc = "returned", !.value = outcome.value]
    ELSE IF IsRateLimited(outcome.message)
         THEN [s EXCEPT !.pc = "sleeping", !.waits = Append(@, s.currentDelay)]
         ELSE [s EXCEPT !.pc = "thrown", !.error = outcome.message]

\* the setTimeout fires: currentDelay *= 2; attempt++; back to the while test
WithRetryTimer_NoDoubling(s, n) ==
    WithRetryLoop([s EXCEPT !.attempt = @ + 1], n)

WithRetryTimer(s, n) ==
    WithRetryLoop([s EXCEPT !.currentDelay = @ * 2, !.attempt = @ + 1], n)

RetrySettled(s) == s.pc \in {"returned", "thrown"}

-----------------------------------------------------------------------------
(* The variables of a program that is not the one being run *)

SweepIdle ==
    /\ feeConfig = 0
    /\ keysReadable = FALSE
    /\ privateKeys = <<>>
    /\ pc = "idle"
    /\ i = 0
    /\ recipientKeypair = "none"
    /\ senderBalanceLamports = 0
    /\ amountToSend = 0
    /\ caught = ""
    /\ actionCount = 0
    /\ transactionLog = <<>>
    /\ errorLog = <<>>
    /\ sent = <<>>
    /\ rpcLog = <<>>
    /\ queried = <<>>
    /\ timer = <<>>
    /\ poll = <<>>
    /\ promise = <<>>
    /\ events = <<>>
    /\ exitCode = -1

ScanIdle ==
    /\ scanConfig = [min_balance_sol |-> 0, transaction_count_range |-> <<0, 0>>,
                     max_concurrent_requests |-> 0]
    /\ walletsReadable = FALSE
    /\ walletList = <<>>
    /\ scanPc = "idle"
    /\ nextItem = 0
    /\ ret = <<>>
    /\ executing = <<>>
    /\ p = <<>>
    /\ e = <<>>
    /\ raceWatch = {}
    /\ allState = "none"
    /\ firstSettled = 0
    /\ microtasks = <<>>
    /\ task = <<>>
    /\ results = <<>>
    /\ fileWrites = <<>>
    /\ scanTransactionLog = {}
    /\ scanErrorLog = {}
    /\ rateLimited = {}
    /\ answers = <<>>
    /\ scanExitCode = -1

RetryIdle ==
    /\ retries = 0
    /\ initialDelay = 0
    /\ retry = [pc |-> "idle"]
    /\ fnTrace = <<>>

-----------------------------------------------------------------------------
(* SpecRetry: withRetry called once with arbitrary arguments and fn *)

RetryInit ==
    /\ retries \in 0..MaxRetriesArg
    /\ initialDelay \in {1, DefaultInitialDelay}
    /\ retry = WithRetry(retries, initialDelay)
    /\ fnTrace = <<>>
    /\ SweepIdle
    /\ ScanIdle

\* the pending invocation of fn settles
RetryFnSettles ==
    /\ retry.pc = "calling"
    /\ \E outcome \in FnOutcomes :
        /\ retry' = WithRetryFnSettles(retry, outcome)
        /\ fnTrace' = Append(fnTrace, outcome)
    /\ UNCHANGED <<retries, initialDelay, sweepVars, scanVars>>

\* the backoff timer fires
RetryTimerFires ==
    /\ retry.pc = "sleeping"
    /\ retry' = WithRetryTimer(retry, retries)
    /\ UNCHANGED <<retries, initialDelay, fnTrace, sweepVars, scanVars>>

RetryNext == RetryFnSettles \/ RetryTimerFires

SpecRetry == RetryInit /\ [][RetryNext]_vars

-----------------------------------------------------------------------------
(* Properties of withRetry, checked under SpecRetry *)

\* fn's invocation j was rejected with the rate-limit signal
RateLimitedAt(j) == ~fnTrace[j].ok /\ IsRateLimited(fnTrace[j].message)

\* C4: if fn fails with the rate-limit signal exactly k times and then
\* succeeds, k < retries, withRetry returns fn's value, fn was invoked
\* exactly k+1 times and the waits were initialDelay, 2*initialDelay, ...,
\* 2^(k-1)*initialDelay in that order.
C4_RetriesThenSuccess ==
    LET n == Len(fnTrace)
        k == n - 1
    IN  (/\ n >= 1
         /\ fnTrace[n].ok
         /\ \A j \in 1..k : RateLimitedAt(j)
         /\ k < retries)
        => /\ retry.pc = "returned"
           /\ retry.value = fnTrace[n].value
           /\ retry.calls = k + 1
           /\ Len(retry.waits) = k
           /\ \A j \in 1..k : retry.waits[j] = (2 ^ (j - 1)) * initialDelay

\* C4 witness: two rate-limited failures, then a success, with the default
\* initial delay
C4_Witness ==
    /\ Len(fnTrace) = 3
    /\ RateLimitedAt(1) /\ RateLimitedAt(2) /\ fnTrace[3].ok
    /\ initialDelay = DefaultInitialDelay
    /\ retry.pc = "returned"
    /\ retry.waits = <<500, 1000>>

\* C5: fn is never invoked more than `retries` times; if its first `retries`
\* invocations all fail with the rate-limit signal, the call fails with the
\* retry-exhausted error after exactly `retries` invocations.
C5_BoundedAttempts ==
    /\ retry.calls <= retries
    /\ Len(fnTrace) <= retries
    /\ (/\ RetrySettled(retry)
        /\ Len(fnTrace) >= retries
        /\ \A j \in 1..retries : RateLimitedAt(j))
       => /\ retry.pc = "thrown"
          /\ retry.error = MaxRetryMessage
          /\ retry.calls = retries

\* C5 witness: three rate-limited invocations exhaust retries = 3
C5_Witness ==
    /\ retries = 3
    /\ Len(fnTrace) = 3
    /\ \A j \in 1..3 : RateLimitedAt(j)
    /\ retry.pc = "thrown"
    /\ retry.error = MaxRetryMessage

\* C6: an invocation of fn that fails with an error that is not the
\* rate-limit signal is the last one: withRetry throws that same error, with
\* no wait after it, however many rate-limited attempts came before.
C6_OtherErrorPropagates ==
    \A j \in 1..Len(fnTrace) :
        (~fnTrace[j].ok /\ ~IsRateLimited(fnTrace[j].message))
        => /\ j = Len(fnTrace)
           /\ retry.pc = "thrown"
           /\ retry.error = fnTrace[j].message
           /\ retry.calls = j
           /\ Len(retry.waits) = j - 1

\* C6 witness: two rate-limited attempts, then an error of another kind
C6_Witness ==
    /\ Len(fnTrace) = 3
    /\ RateLimitedAt(1) /\ RateLimitedAt(2)
    /\ fnTrace[3] = [ok |-> FALSE, value |-> 0, message |-> "fetch failed"]
    /\ retry.pc = "thrown"
    /\ retry.error = "fetch failed"

-----------------------------------------------------------------------------
(* SolanaCollector/main.js: configuration and helpers *)

\* LAMPORTS_PER_SOL of @solana/web3.js
LAMPORTS_PER_SOL == 1000000000

\* const TRANSACTION_FEE_SOL = config.transaction_fee_sol || 0.001, in
\* thousandths of a SOL: an unset or zero setting gives the default
DefaultFeeMilliSol == 1
TRANSACTION_FEE_SOL == IF feeConfig = 0 THEN DefaultFeeMilliSol ELSE feeConfig

\* const transactionFeeLamports = TRANSACTION_FEE_SOL * LAMPORTS_PER_SOL
transactionFeeLamports == TRANSACTION_FEE_SOL * (LAMPORTS_PER_SOL \div 1000)

\* the error of the confirmation timer, with the default
\* CONFIRMATION_TIMEOUT_SECONDS of 60
TimeoutMessage == "Transaction was not confirmed in 60 seconds."

\* A line of the keys file either decodes to the keypair of an account or is
\* malformed (parsePrivateKey or Keypair.fromSecretKey throws)
Accounts == {"R", "A"}
KeyLines == Accounts \cup {"bad"}
Parses(line) == line \in Accounts

\* privateKeys[k] of the source, which counts from 0
Line(k) == privateKeys[k + 1]

\* the values of i for which the sender loop runs
SenderLines == 1..(Len(privateKeys) - 1)

\* what the RPC node can answer
Balances == {1890880, 1890881, 2890881}
Reserves == {890880}
RpcErrors == {"429 Too Many Requests", "fetch failed"}
PollResults == {"confirmed"}
PollErrors == {"block height exceeded"}
LogMessages == {"[\"Program log\"]"}

\* if (amountToSend <= 0)
IsInsufficient_Strict(amount) == amount < 0

IsInsufficient(amount) == amount <= 0

\* resolve and reject of a promise: only a pending promise changes
SettlePromise_LastWins(current, state, value) == [state |-> state, value |-> value]

SettlePromise(current, state, value) ==
    IF current.state = "pending"
    THEN [state |-> state, value |-> value]
    ELSE current

\* clearTimeout: a timer that has not fired is cancelled
ClearTimeout(t) == IF t = "armed" THEN "cleared" ELSE t

\* the body of confirmTransactionWithTimeout: the timer is set and
\* connection.confirmTransaction is called
ConfirmTransactionWithTimeout(w) ==
    /\ timer' = [timer EXCEPT ![w] = "armed"]
    /\ poll' = [poll EXCEPT ![w] = "pending"]
    /\ promise' = [promise EXCEPT ![w] = [state |-> "pending", value |-> ""]]
    /\ UNCHANGED events

\* the setTimeout callback: reject(new Error(...))
OnTimeout_Resolves(w) ==
    /\ timer' = [timer EXCEPT ![w] = "fired"]
    /\ promise' = [promise EXCEPT ![w] = SettlePromise(@, "fulfilled", TimeoutMessage)]
    /\ events' = [events EXCEPT ![w] = Append(@, [kind |-> "timer", value |-> TimeoutMessage])]
    /\ UNCHANGED poll

OnTimeout(w) ==
    /\ timer' = [timer EXCEPT ![w] = "fired"]
    /\ promise' = [promise EXCEPT ![w] = SettlePromise(@, "rejected", TimeoutMessage)]
    /\ events' = [events EXCEPT ![w] = Append(@, [kind |-> "timer", value |-> TimeoutMessage])]
    /\ UNCHANGED poll

\* .then(result => { clearTimeout(timeout); resolve(result); })
OnPollResolved_SharedTimer(w, result) ==
    LET last == CHOOSE v \in DOMAIN timer :
                    /\ timer[v] # "none"
                    /\ \A u \in DOMAIN timer : timer[u] # "none" => u <= v
    IN  /\ poll' = [poll EXCEPT ![w] = "resolved"]
        /\ timer' = [timer EXCEPT ![last] = ClearTimeout(@)]
        /\ promise' = [promise EXCEPT ![w] = SettlePromise(@, "fulfilled", result)]
        /\ events' = [events EXCEPT ![w] = Append(@, [kind |-> "resolved", value |-> result])]

OnPollResolved(w, result) ==
    /\ poll' = [poll EXCEPT ![w] = "resolved"]
    /\ timer' = [timer EXCEPT ![w] = ClearTimeout(@)]
    /\ promise' = [promise EXCEPT ![w] = SettlePromise(@, "fulfilled", result)]
    /\ events' = [events EXCEPT ![w] = Append(@, [kind |-> "resolved", value |-> result])]

\* .catch(err => { clearTimeout(timeout); reject(err); })
OnPollRejected_NoClear(w, err) ==
    /\ poll' = [poll EXCEPT ![w] = "rejected"]
    /\ promise' = [promise EXCEPT ![w] = SettlePromise(@, "rejected", err)]
    /\ events' = [events EXCEPT ![w] = Append(@, [kind |-> "rejected", value |-> err])]
    /\ UNCHANGED timer

OnPollRejected(w, err) ==
    /\ poll' = [poll EXCEPT ![w] = "rejected"]
    /\ timer' = [timer EXCEPT ![w] = ClearTimeout(@)]
    /\ promise' = [promise EXCEPT ![w] = SettlePromise(@, "rejected", err)]
    /\ events' = [events EXCEPT ![w] = Append(@, [kind |-> "rejected", value |-> err])]

\* what no step of the sweep changes: its configuration, the keys file and
\* the variables of the other programs
sweepFixed == <<feeConfig, keysReadable, privateKeys, retryVars, scanVars>>
sweepLocals == <<recipientKeypair, senderBalanceLamports, amountToSend, caught>>
sweepLogs == <<actionCount, transactionLog, errorLog>>
confirmVars == <<timer, poll, promise, events>>

\* the catch block of an iteration once the logs are known, and the loop's i++
LogTransferError_SameLine(message, logs) ==
    /\ errorLog' = Append(errorLog, [kind |-> "transfer", i |-> i,
                                     message |-> message, logs |-> logs])
    /\ i' = i
    /\ pc' = "loop"

LogTransferError(message, logs) ==
    /\ errorLog' = Append(errorLog, [kind |-> "transfer", i |-> i,
                                     message |-> message, logs |-> logs])
    /\ i' = i + 1
    /\ pc' = "loop"

\* lines 122-126: the catch of the sender's key: log it and `continue`
InvalidSenderKey_Break ==
    /\ errorLog' = Append(errorLog, [kind |-> "invalidKey", i |-> i,
                                     message |-> "Invalid private key format.",
                                     logs |-> ""])
    /\ pc' = "finished"
    /\ UNCHANGED <<i, rpcLog>>

InvalidSenderKey ==
    /\ errorLog' = Append(errorLog, [kind |-> "invalidKey", i |-> i,
                                     message |-> "Invalid private key format.",
                                     logs |-> ""])
    /\ i' = i + 1
    /\ pc' = "loop"
    /\ UNCHANGED rpcLog

\* a method of connection is called for the line of the current iteration
CallRpc(op) == rpcLog' = Append(rpcLog, [i |-> i, op |-> op])

\* lines 152 and 163-173: sendTransaction rejects with an error that carries
\* no transaction: the catch block logs it and the loop goes on
SendTransactionFailed_Retry(m) ==
    IF IsRateLimited(m)
    THEN /\ sent' = Append(sent, sent[Len(sent)])
         /\ CallRpc("sendTransaction")
         /\ pc' = "sendTransaction"
         /\ UNCHANGED <<i, errorLog, caught, confirmVars>>
    ELSE /\ LogTransferError(m, "[]")
         /\ UNCHANGED <<caught, confirmVars, rpcLog, sent>>

SendTransactionFailed(m) ==
    /\ LogTransferError(m, "[]")
    /\ UNCHANGED <<caught, confirmVars, rpcLog, sent>>

\* the awaits of main, at which the event loop runs other callbacks
AwaitStates ==
    {"getBalance", "getMinimumBalance", "sendTransaction", "confirm",
     "getTransaction", "finished"}

\* a callback of the event loop (a timer, an RPC answer) runs only when main
\* is suspended and no continuation of a settled promise is waiting
MacrotaskTurn ==
    /\ pc \in AwaitStates
    /\ ~(pc = "confirm" /\ promise[i].state # "pending")

-----------------------------------------------------------------------------
(* SpecSweep: the async main function of SolanaCollector/main.js *)

\* the keys files tried: any lines, with the account of the first line
\* (the recipient) called R
KeyFiles ==
    {f \in UNION {[1..n -> KeyLines] : n \in 0..MaxKeys} :
        f = <<>> \/ f[1] \in {"R", "bad"}}

SweepInit ==
    /\ feeConfig \in {0, 2}
    /\ \/ keysReadable = FALSE /\ privateKeys = <<>>
       \/ keysReadable = TRUE /\ privateKeys \in KeyFiles
    /\ pc = "start"
    /\ i = 0
    /\ recipientKeypair = "none"
    /\ senderBalanceLamports = 0
    /\ amountToSend = 0
    /\ caught = ""
    /\ actionCount = 0
    /\ transactionLog = <<>>
    /\ errorLog = <<>>
    /\ sent = <<>>
    /\ rpcLog = <<>>
    /\ queried = [w \in SenderLines |-> [balance |-> -1, reserve |-> -1]]
    /\ timer = [w \in SenderLines |-> "none"]
    /\ poll = [w \in SenderLines |-> "none"]
    /\ promise = [w \in SenderLines |-> [state |-> "none", value |-> ""]]
    /\ events = [w \in SenderLines |-> <<>>]
    /\ exitCode = -1
    /\ RetryIdle
    /\ ScanIdle

\* lines 93-113 and 177-180: read the keys, require two of them, parse the
\* recipient
SweepStart ==
    /\ pc = "start"
    /\ IF ~keysReadable
       THEN \* readPrivateKeys throws: the catch of line 177, then main ends
            /\ errorLog' = Append(errorLog, [kind |-> "general", i |-> 0,
                                             message |-> "ENOENT", logs |-> ""])
            /\ pc' = "finished"
            /\ UNCHANGED <<exitCode, recipientKeypair, i>>
       ELSE IF Len(privateKeys) < 2
       THEN /\ pc' = "exited"
            /\ exitCode' = 1
            /\ UNCHANGED <<errorLog, recipientKeypair, i>>
       ELSE IF ~Parses(Line(0))
       THEN /\ errorLog' = Append(errorLog, [kind |-> "recipient", i |-> 0,
                                             message |-> "Recipient key parsing error",
                                             logs |-> ""])
            /\ pc' = "exited"
            /\ exitCode' = 1
            /\ UNCHANGED <<recipientKeypair, i>>
       ELSE /\ recipientKeypair' = Line(0)
            /\ i' = 1
            /\ pc' = "loop"
            /\ UNCHANGED <<errorLog, exitCode>>
    /\ UNCHANGED <<sweepFixed, senderBalanceLamports, amountToSend, caught,
                   actionCount, transactionLog, sent, rpcLog, queried, confirmVars>>

\* lines 115-132: the loop test, the sender's key, the call of getBalance
SweepLoop ==
    /\ pc = "loop"
    /\ IF ~(i < Len(privateKeys))
       THEN /\ pc' = "finished"
            /\ UNCHANGED <<i, errorLog, rpcLog>>
       ELSE IF ~Parses(Line(i))
       THEN InvalidSenderKey
       ELSE /\ pc' = "getBalance"
            /\ CallRpc("getBalance")
            /\ UNCHANGED <<i, errorLog>>
    /\ UNCHANGED <<sweepFixed, sweepLocals, actionCount, transactionLog, sent,
                   queried, confirmVars, exitCode>>

\* line 132: connection.getBalance settles
SweepGetBalanceSettles ==
    /\ pc = "getBalance"
    /\ \/ \E b \in Balances :
            /\ senderBalanceLamports' = b
            /\ queried' = [queried EXCEPT ![i].balance = b]
            /\ pc' = "getMinimumBalance"
            /\ CallRpc("getMinimumBalanceForRentExemption")
            /\ UNCHANGED <<i, errorLog>>
       \/ \E m \in RpcErrors :
            /\ LogTransferError(m, "[]")
            /\ UNCHANGED <<senderBalanceLamports, queried, rpcLog>>
    /\ UNCHANGED <<sweepFixed, recipientKeypair, amountToSend, caught,
                   actionCount, transactionLog, sent, confirmVars, exitCode>>

\* lines 133-155: getMinimumBalanceForRentExemption settles; the amount; the
\* skip, or the transfer and the call of sendTransaction
SweepGetMinimumBalanceSettles ==
    /\ pc = "getMinimumBalance"
    /\ \/ \E minimumBalance \in Reserves :
            LET amount == senderBalanceLamports - minimumBalance
                              - transactionFeeLamports
            IN  /\ queried' = [queried EXCEPT ![i].reserve = minimumBalance]
                /\ amountToSend' = amount
                /\ IF IsInsufficient(amount)
                   THEN /\ transactionLog' =
                               Append(transactionLog,
                                      [kind |-> "insufficient", i |-> i,
                                       from |-> Line(i), to |-> "",
                                       lamports |-> 0])
                        /\ i' = i + 1
                        /\ pc' = "loop"
                        /\ UNCHANGED <<sent, rpcLog>>
                   ELSE /\ sent' = Append(sent, [i |-> i, from |-> Line(i),
                                                 to |-> recipientKeypair,
                                                 lamports |-> amount])
                        /\ pc' = "sendTransaction"
                        /\ CallRpc("sendTransaction")
                        /\ UNCHANGED <<i, transactionLog>>
                /\ UNCHANGED errorLog
       \/ \E m \in RpcErrors :
            /\ LogTransferError(m, "[]")
            /\ UNCHANGED <<queried, amountToSend, transactionLog, sent, rpcLog>>
    /\ UNCHANGED <<sweepFixed, recipientKeypair, senderBalanceLamports, caught,
                   actionCount, confirmVars, exitCode>>

\* lines 152-157 and 163-167: sendTransaction settles; on a signature
\* confirmTransactionWithTimeout is called, on an error the catch block runs
SweepSendTransactionSettles ==
    /\ pc = "sendTransaction"
    /\ \/ /\ ConfirmTransactionWithTimeout(i)
          /\ CallRpc("confirmTransaction")
          /\ pc' = "confirm"
          /\ UNCHANGED <<i, errorLog, caught, sent>>
       \/ \* a SendTransactionError that carries its transaction
          /\ caught' = "Transaction simulation failed"
          /\ pc' = "getTransaction"
          /\ CallRpc("getTransaction")
          /\ UNCHANGED <<i, errorLog, confirmVars, sent>>
       \/ \E m \in RpcErrors : SendTransactionFailed(m)
    /\ UNCHANGED <<sweepFixed, recipientKeypair, senderBalanceLamports,
                   amountToSend, actionCount, transactionLog, queried,
                   exitCode>>

\* lines 167-173: getTransaction settles, its failure is swallowed
SweepGetTransactionSettles ==
    /\ pc = "getTransaction"
    /\ \E logs \in LogMessages : LogTransferError(caught, logs)
    /\ UNCHANGED <<sweepFixed, sweepLocals, actionCount, transactionLog, sent,
                   rpcLog, queried, confirmVars, exitCode>>

\* line 78: the confirmation timer of line w fires
SweepTimerFires(w) ==
    /\ MacrotaskTurn
    /\ timer[w] = "armed"
    /\ OnTimeout(w)
    /\ UNCHANGED <<sweepFixed, pc, i, sweepLocals, sweepLogs, sent, rpcLog,
                   queried, exitCode>>

\* line 82: connection.confirmTransaction of line w resolves
SweepPollResolves(w) ==
    /\ MacrotaskTurn
    /\ poll[w] = "pending"
    /\ \E result \in PollResults : OnPollResolved(w, result)
    /\ UNCHANGED <<sweepFixed, pc, i, sweepLocals, sweepLogs, sent, rpcLog,
                   queried, exitCode>>

\* line 85: connection.confirmTransaction of line w rejects
SweepPollRejects(w) ==
    /\ MacrotaskTurn
    /\ poll[w] = "pending"
    /\ \E err \in PollErrors : OnPollRejected(w, err)
    /\ UNCHANGED <<sweepFixed, pc, i, sweepLocals, sweepLogs, sent, rpcLog,
                   queried, exitCode>>

\* lines 157-173: main resumes from await confirmTransactionWithTimeout
SweepConfirmSettled ==
    /\ pc = "confirm"
    /\ promise[i].state # "pending"
    /\ IF promise[i].state = "fulfilled"
       THEN /\ transactionLog' =
                   Append(transactionLog,
                          [kind |-> "sent", i |-> i, from |-> Line(i),
                           to |-> recipientKeypair, lamports |-> amountToSend])
            /\ actionCount' = actionCount + 1
            /\ i' = i + 1
            /\ pc' = "loop"
            /\ UNCHANGED errorLog
       ELSE /\ LogTransferError(promise[i].value, "[]")
            /\ UNCHANGED <<transactionLog, actionCount>>
    /\ UNCHANGED <<sweepFixed, sweepLocals, sent, rpcLog, queried, confirmVars,
                   exitCode>>

\* main has returned and nothing keeps the event loop alive
SweepProcessExit ==
    /\ pc = "finished"
    /\ \A w \in SenderLines : timer[w] # "armed" /\ poll[w] # "pending"
    /\ pc' = "exited"
    /\ exitCode' = 0
    /\ UNCHANGED <<sweepFixed, i, sweepLocals, sweepLogs, sent, rpcLog, queried,
                   confirmVars>>

SweepNext ==
    \/ SweepStart
    \/ SweepLoop
    \/ SweepGetBalanceSettles
    \/ SweepGetMinimumBalanceSettles
    \/ SweepSendTransactionSettles
    \/ SweepGetTransactionSettles
    \/ SweepConfirmSettled
    \/ SweepProcessExit
    \/ \E w \in SenderLines : SweepTimerFires(w)
    \/ \E w \in SenderLines : SweepPollResolves(w)
    \/ \E w \in SenderLines : SweepPollRejects(w)

SpecSweep == SweepInit /\ [][SweepNext]_vars

\* The same program when every pending RPC call settles and every armed
\* timer fires: a step that stays possible is eventually taken
SpecSweepFair == SpecSweep /\ WF_vars(SweepNext)

-----------------------------------------------------------------------------
(* Properties of the sweep, checked under SpecSweep *)

\* the entries of a log about sender line w
SentEntries(w) ==
    {k \in 1..Len(transactionLog) :
        transactionLog[k].kind = "sent" /\ transactionLog[k].i = w}
SkipEntries(w) ==
    {k \in 1..Len(transactionLog) :
        transactionLog[k].kind = "insufficient" /\ transactionLog[k].i = w}
ErrorEntries(w) == {k \in 1..Len(errorLog) : errorLog[k].i = w}
Submissions(w) == {k \in 1..Len(sent) : sent[k].i = w}

\* C7: confirmTransactionWithTimeout settles exactly once, with whichever of
\* the poll and the timer ran first: the poll's result if the poll resolved
\* first, the confirmation-timeout error if the timer fired first; main then
\* logs the transfer as sent, or as failed with that error.
C7_FirstEventWins ==
    \A w \in SenderLines :
        IF events[w] = <<>>
        THEN promise[w].state \in {"none", "pending"}
        ELSE LET first == events[w][1]
             IN  /\ first.kind = "resolved" =>
                        /\ promise[w] = [state |-> "fulfilled", value |-> first.value]
                        /\ i > w => SentEntries(w) # {}
                 /\ first.kind = "timer" =>
                        /\ promise[w] = [state |-> "rejected", value |-> TimeoutMessage]
                        /\ i > w => \E k \in ErrorEntries(w) :
                                        errorLog[k].message = TimeoutMessage
                 /\ first.kind = "rejected" =>
                        promise[w] = [state |-> "rejected", value |-> first.value]

\* C7 witness: the timer of line 1 fired and its poll resolved afterwards;
\* the poll of line 2 resolved before its timer
C7_Witness ==
    /\ Len(privateKeys) = 3
    /\ Len(events[1]) = 2
    /\ events[1][1].kind = "timer" /\ events[1][2].kind = "resolved"
    /\ promise[1].state = "rejected"
    /\ events[2] # <<>> /\ events[2][1].kind = "resolved"
    /\ promise[2].state = "fulfilled"

\* the outcome of line w is Fail by timeout: its promise stays rejected with
\* the timeout error, no transfer of it is logged as sent, the counter counts
\* only logged transfers, and once main has moved on the error log holds the
\* timeout
TimedOutStaysFailed(w) ==
    /\ promise[w] = [state |-> "rejected", value |-> TimeoutMessage]
    /\ SentEntries(w) = {}
    /\ actionCount = Cardinality({k \in 1..Len(transactionLog) :
                                     transactionLog[k].kind = "sent"})
    /\ i > w => \E k \in ErrorEntries(w) : errorLog[k].message = TimeoutMessage

\* C8: after the confirmation timer of a line has fired, the completion of
\* its poll changes nothing that can be observed: not the logs, the counter,
\* the position of main, nor the timer or promise of any line; and the line
\* stays failed.
C8_LatePollHasNoEffect ==
    [][\A w \in SenderLines :
        /\ (timer[w] = "fired" /\ poll[w] = "pending" /\ poll'[w] # "pending")
            => UNCHANGED <<pc, i, sweepLocals, sweepLogs, sent, rpcLog, queried,
                           timer, promise, exitCode>>
        /\ timer'[w] = "fired" => TimedOutStaysFailed(w)']_vars

\* C8 witness: line 1 timed out, its poll resolved while or after line 2 was
\* swept, and line 2 was sent and counted
C8_Witness ==
    /\ Len(privateKeys) = 3
    /\ timer[1] = "fired"
    /\ poll[1] = "resolved"
    /\ SentEntries(1) = {}
    /\ SentEntries(2) # {}
    /\ actionCount = 1
    /\ pc = "exited"

\* C9: when the poll settles (resolves or rejects) before the timer fires,
\* the timer is cleared and never fires.
C9_TimerReleased ==
    \A w \in SenderLines :
        (events[w] # <<>> /\ events[w][1].kind \in {"resolved", "rejected"})
        => /\ timer[w] = "cleared"
           /\ Len(events[w]) = 1

\* C9 witness: a poll rejected before its timer, and main has finished
C9_Witness ==
    /\ \E w \in SenderLines :
        /\ events[w] # <<>>
        /\ events[w][1].kind = "rejected"
        /\ timer[w] = "cleared"
    /\ pc = "exited"

\* C10: with balance B, reserve R and fee F, if B - R - F <= 0 no transfer is
\* built or submitted for the line, an insufficient-balance entry is written
\* to the transaction log, nothing to the error log, and the loop goes on to
\* the next line; every submitted transfer has amount B - R - F > 0.
C10_NoTransferWhenInsufficient ==
    /\ \A k \in 1..Len(sent) :
        LET q == queried[sent[k].i]
        IN  /\ q.balance >= 0 /\ q.reserve >= 0
            /\ sent[k].lamports = q.balance - q.reserve - transactionFeeLamports
            /\ sent[k].lamports > 0
    /\ \A w \in SenderLines :
        (/\ queried[w].balance >= 0
         /\ queried[w].reserve >= 0
         /\ queried[w].balance - queried[w].reserve - transactionFeeLamports <= 0)
        => /\ Submissions(w) = {}
           /\ Cardinality(SkipEntries(w)) = 1
           /\ ErrorEntries(w) = {}
           /\ i > w

\* C10 witness: line 1 has exactly reserve + fee and is skipped, line 2 has
\* one lamport more and its transfer of 1 lamport is submitted
C10_Witness ==
    /\ Len(privateKeys) = 3
    /\ queried[1].balance - queried[1].reserve - transactionFeeLamports = 0
    /\ SkipEntries(1) # {}
    /\ Submissions(1) = {}
    /\ \E k \in Submissions(2) : sent[k].lamports = 1

\* how often method op of connection was called for sender line w
Calls(w, op) ==
    Cardinality({k \in 1..Len(rpcLog) : rpcLog[k] = [i |-> w, op |-> op]})

\* the calls the sweep makes for a line before it waits for the confirmation
SweepQueries == {"getBalance", "getMinimumBalanceForRentExemption", "sendTransaction"}

\* C11: a rate-limited failure of getBalance, getMinimumBalanceForRentExemption
\* or sendTransaction is retried instead of failing the line at once: a line
\* logged as failed with the rate-limit error had one of these calls made at
\* least twice.
C11_RateLimitedIsRetried ==
    \A k \in 1..Len(errorLog) :
        (errorLog[k].kind = "transfer" /\ IsRateLimited(errorLog[k].message))
        => \E op \in SweepQueries : Calls(errorLog[k].i, op) >= 2

\* sender line w has reached an outcome: sent, skipped or failed
Terminal(w) ==
    SentEntries(w) # {} \/ SkipEntries(w) # {} \/ ErrorEntries(w) # {}

\* the calls of methods of connection made for sender line w
CallsFor(w) == {k \in 1..Len(rpcLog) : rpcLog[k].i = w}

\* the run had a readable keys file of at least two lines and has ended
SweepRanToEnd == pc = "exited" /\ keysReadable /\ Len(privateKeys) >= 2

C13_RecipientNeverSender ==
    \A k \in 1..Len(sent) :
        /\ sent[k].to = Line(0)
        /\ sent[k].from # Line(0)

\* C14: the process exits with a non-zero status exactly when the keys file
\* has fewer than two lines (sweep) or the keys or wallets file cannot be read
\* (sweep and scan), and then no wallet was processed and no RPC issued; every
\* other run exits with status 0.
C14_ExitStatus ==
    /\ pc = "exited" =>
        LET fatal == ~keysReadable \/ Len(privateKeys) < 2
        IN  /\ fatal => exitCode # 0 /\ rpcLog = <<>> /\ transactionLog = <<>>
            /\ ~fatal => exitCode = 0
    /\ scanPc \in {"exited", "done"} =>
        /\ ~walletsReadable =>
            /\ scanExitCode # 0
            /\ \A k \in DOMAIN task : task[k].pc = "unstarted"
        /\ walletsReadable => scanExitCode = 0

\* the sender lines main is done with whose transfer was submitted and whose
\* confirmation arrived before the timer fired
ConfirmedInTime ==
    {w \in SenderLines :
        /\ i > w
        /\ Submissions(w) # {}
        /\ events[w] # <<>>
        /\ events[w][1].kind = "resolved"}

Outcomes(w) ==
    Cardinality(SentEntries(w)) + Cardinality(SkipEntries(w))
        + Cardinality(ErrorEntries(w))

\* the sender loop works on one line at a time, in the order of the file:
\* the lines before i have exactly one outcome, the lines from i on have none,
\* no call was made for a line after i, and the calls follow the file's order
OneLineAtATime ==
    /\ \A w \in SenderLines :
        /\ Outcomes(w) = IF w < i THEN 1 ELSE 0
        /\ w > i => CallsFor(w) = {}
    /\ \A k \in 1..Len(rpcLog) :
        /\ \A w \in SenderLines : w < rpcLog[k].i => Terminal(w)
        /\ k > 1 => rpcLog[k - 1].i <= rpcLog[k].i
    /\ pc \in AwaitStates \ {"finished"} => i \in SenderLines /\ CallsFor(i) # {}
    /\ (pc \in {"finished", "exited"} /\ recipientKeypair # "none")
        => \A w \in SenderLines : Outcomes(w) = 1

\* C18: no RPC call is issued for a line until every earlier line has its
\* outcome, each line has exactly one outcome once the loop has passed it,
\* and every run ends; a run that entered the sender loop ends with every
\* sender line at exactly one outcome.
C18_OneAtATimeInOrder ==
    /\ [](OneLineAtATime)
    /\ <>(pc = "exited")

\* C18 witness: two sender lines both went through their RPC calls, the
\* second only after the first had failed; the run has ended
C18_Witness ==
    /\ Len(privateKeys) = 3
    /\ pc = "exited"
    /\ ErrorEntries(1) # {} /\ CallsFor(1) # {}
    /\ SentEntries(2) # {}
    /\ rpcLog[Len(rpcLog)].i = 2

\* C20: sendTransaction is called at most once for each sender line, and
\* every call is one submitted transfer: neither a submission error nor a
\* confirmation timeout is followed by another submission for the line.
C20_AtMostOneSubmission ==
    \A w \in SenderLines :
        /\ Cardinality(Submissions(w)) <= 1
        /\ Calls(w, "sendTransaction") = Cardinality(Submissions(w))

\* C20 witness: the transfer of the first sender line timed out and was
\* confirmed afterwards; the run ended with that one submission for it and an
\* error logged, and the submission of the second sender line failed
C20_Witness ==
    /\ Len(privateKeys) = 3
    /\ pc = "exited"
    /\ timer[1] = "fired" /\ poll[1] = "resolved"
    /\ Cardinality(Submissions(1)) = 1
    /\ ErrorEntries(1) # {}
    /\ Cardinality(Submissions(2)) = 1
    /\ ErrorEntries(2) # {} /\ poll[2] = "none"

-----------------------------------------------------------------------------
(* BalanceTxFilter/index.js: checkWallet and the helpers of asyncPool *)

\* the 1e9 of `min_balance_sol * 1e9` and `balanceLamports / 1e9`
OneE9 == 1000000000

poolLimit == scanConfig.max_concurrent_requests

\* the configured minimum in lamports, as an exact number
ConfiguredMinimum == scanConfig.min_balance_sol * (OneE9 \div 1000)

\* const minBalanceLamports = min_balance_sol * 1e9 is a product of two IEEE
\* doubles and is rounded to the nearest double. For the settings below it is
\* exact except 0.067 * 1e9 = 67000000.00000001, which lies above the exact
\* product. The double is kept as its integer part and whether it exceeds it.
RoundedAbove == {67}
minBalanceLamports ==
    [floor |-> ConfiguredMinimum,
     above |-> scanConfig.min_balance_sol \in RoundedAbove]
txMin == scanConfig.transaction_count_range[1]
txMax == scanConfig.transaction_count_range[2]

Items == 1..Len(walletList)

\* what the RPC node can answer to a scan; in one run it answers the
\* requests about at most one wallet with 429, any number of times
ScanBalances == {ConfiguredMinimum - 1, ConfiguredMinimum}
SignatureCounts == {0, 2, 3}
ScanRpcOutcomes(k, values) ==
    [ok : {TRUE}, value : values, message : {""}]
        \cup [ok : {FALSE}, value : {0}, message : {"fetch failed"}]
        \cup (IF rateLimited \subseteq {k}
              THEN [ok : {FALSE}, value : {0}, message : {"429 Too Many Requests"}]
              ELSE {})

\* null, and the walletInfo object with balance = balanceLamports / 1e9 as
\* whole SOL and the remaining lamports
NullResult == [isNull |-> TRUE, address |-> 0, balance |-> <<0, 0>>,
               transactionCount |-> 0]
WalletInfo(address, balanceLamports, transactionCount) ==
    [isNull |-> FALSE, address |-> address,
     balance |-> <<balanceLamports \div OneE9, balanceLamports % OneE9>>,
     transactionCount |-> transactionCount]

IdleRetry == [attempt |-> 0, currentDelay |-> 0, pc |-> "idle", calls |-> 0,
              waits |-> <<>>, value |-> 0, error |-> ""]

\* checkWallet before it is called
NewTask == [pc |-> "unstarted", rs |-> IdleRetry, balanceLamports |-> 0,
            signatureCalls |-> 0, outcome |-> "",
            error |-> "",
            result |-> [state |-> "pending", value |-> NullResult]]

\* a return of checkWallet: the promise of the call is fulfilled; the state
\* of its last withRetry is gone
CheckWalletReturn(t, value, outcome) ==
    [t EXCEPT !.pc = "returned", !.outcome = outcome, !.rs = IdleRetry,
              !.balanceLamports = 0,
              !.result = [state |-> "fulfilled", value |-> value]]

\* the catch block of checkWallet (lines 117-121): the error is logged by the
\* caller of this operator and null is returned
CheckWalletCatch_Rethrow(t, message) ==
    [t EXCEPT !.pc = "returned", !.outcome = "error", !.error = message,
              !.rs = IdleRetry, !.balanceLamports = 0,
              !.result = [state |-> "rejected", value |-> NullResult]]

CheckWalletCatch(t, message) ==
    [CheckWalletReturn(t, NullResult, "error") EXCEPT !.error = message]

\* how often connection.getSignaturesForAddress was called, kept with the
\* task
CountCalls(t) ==
    IF t.pc = "signatures" THEN [t EXCEPT !.signatureCalls = t.rs.calls] ELSE t

\* if (balanceLamports < minBalanceLamports)
BelowMinimum_Sol(balanceLamports) == balanceLamports < scanConfig.min_balance_sol

BelowMinimum(balanceLamports) ==
    \/ balanceLamports < minBalanceLamports.floor
    \/ balanceLamports = minBalanceLamports.floor /\ minBalanceLamports.above

\* if (transactionCount < txMin || transactionCount > txMax)
CountOutOfRange_NoUpper(transactionCount) == transactionCount < txMin

CountOutOfRange(transactionCount) ==
    transactionCount < txMin \/ transactionCount > txMax

\* checkWallet goes on after its withRetry has moved (lines 97-116): a throw
\* goes to the catch block; the balance is tested and getSignaturesForAddress
\* is called through a new withRetry; the count is tested and walletInfo built
CheckWalletContinue(t, address) ==
    IF t.rs.pc = "thrown" THEN CheckWalletCatch(t, t.rs.error)
    ELSE IF t.rs.pc # "returned" THEN t
    ELSE IF t.pc = "balance"
    THEN IF BelowMinimum(t.rs.value)
         THEN CheckWalletReturn(t, NullResult, "belowMinimum")
         ELSE CountCalls([t EXCEPT !.pc = "signatures",
                                   !.balanceLamports = t.rs.value,
                                   !.rs = WithRetry(DefaultRetries,
                                                    DefaultInitialDelay)])
    ELSE LET transactionCount == t.rs.value
         IN  IF CountOutOfRange(transactionCount)
             THEN CheckWalletReturn(t, NullResult, "countOutOfRange")
             ELSE CheckWalletReturn(t, WalletInfo(address, t.balanceLamports,
                                                  transactionCount), "record")

\* checkWallet(address) up to its first await: new PublicKey(address) throws
\* for a malformed address; else getBalance is called through withRetry
CheckWallet(item) ==
    IF ~item.wellFormed
    THEN CheckWalletCatch(NewTask, "Invalid public key input")
    ELSE CountCalls([NewTask EXCEPT !.pc = "balance",
                                    !.rs = WithRetry(DefaultRetries,
                                                     DefaultInitialDelay)])

\* Array.prototype.indexOf, counting from 0, -1 when x is absent
IndexOf(seq, x) ==
    IF \E k \in 1..Len(seq) : seq[k] = x
    THEN (CHOOSE k \in 1..Len(seq) :
              seq[k] = x /\ \A j \in 1..(k - 1) : seq[j] # x) - 1
    ELSE -1

\* Array.prototype.splice(start, 1): a negative start counts from the end
SpliceOne(seq, start) ==
    LET from == IF start < 0
                THEN (IF Len(seq) + start < 0 THEN 0 ELSE Len(seq) + start)
                ELSE start
    IN  IF from >= Len(seq) THEN seq
        ELSE SubSeq(seq, 1, from) \o SubSeq(seq, from + 2, Len(seq))

\* ret.push(p)
RetPush_Unshift(array, item) == <<item>> \o array

RetPush(array, item) == Append(array, item)

\* if (executing.length >= poolLimit)
PoolIsFull_OffByOne(length) == length > poolLimit

PoolIsFull(length) == length >= poolLimit

\* Promise.all(ret) once every promise of ret is fulfilled: the values in the
\* order of ret
AllValues(promises) == [k \in 1..Len(promises) |-> p[promises[k]].value]

\* results.filter(wallet => wallet !== null)
RECURSIVE FilterNonNull(_)
FilterNonNull(array) ==
    IF array = <<>> THEN <<>>
    ELSE IF Head(array).isNull THEN FilterNonNull(Tail(array))
    ELSE <<Head(array)>> \o FilterNonNull(Tail(array))

Job(kind, k, ok) == [kind |-> kind, k |-> k, ok |-> ok]

-----------------------------------------------------------------------------
(* SpecScan: main of BalanceTxFilter/index.js with asyncPool and checkWallet. *)
(* Promise jobs run first in, first out; a timer or an RPC answer runs     *)
(* only when main is suspended and the job queue is empty.                   *)

WalletFiles ==
    UNION {{[k \in 1..n |-> [address |-> k, wellFormed |-> f[k]]] :
                f \in [1..n -> BOOLEAN]} : n \in 0..MaxWallets}

ScanInit ==
    /\ scanConfig \in [min_balance_sol : {67, 1000},
                       transaction_count_range : {<<1, 2>>},
                       max_concurrent_requests : 1..MaxPoolLimit]
    /\ \/ walletsReadable = FALSE /\ walletList = <<>>
       \/ walletsReadable = TRUE /\ walletList \in WalletFiles
    /\ scanPc = "start"
    /\ nextItem = 0
    /\ ret = <<>>
    /\ executing = <<>>
    /\ p = [k \in Items |-> [state |-> "none", value |-> NullResult]]
    /\ e = [k \in Items |-> "none"]
    /\ raceWatch = {}
    /\ allState = "none"
    /\ firstSettled = 0
    /\ microtasks = <<>>
    /\ task = [k \in Items |-> NewTask]
    /\ results = <<>>
    /\ fileWrites = <<>>
    /\ scanTransactionLog = {}
    /\ scanErrorLog = {}
    /\ rateLimited = {}
    /\ answers = [k \in Items |-> [balance |-> -1, count |-> -1]]
    /\ scanExitCode = -1
    /\ RetryIdle
    /\ SweepIdle

\* what no step of the scan changes
scanFixed == <<scanConfig, walletsReadable, walletList, retryVars, sweepVars>>
poolVars == <<nextItem, ret, executing, p, e, raceWatch, allState, firstSettled>>
scanLogs == <<scanTransactionLog, scanErrorLog>>
scanMain == <<results, fileWrites, scanExitCode>>

MainSuspended == scanPc \in {"awaitRace", "awaitAll", "awaitWrite", "done"}
JobTurn(kind) ==
    /\ MainSuspended
    /\ microtasks # <<>>
    /\ Head(microtasks).kind = kind
ScanMacrotaskTurn == MainSuspended /\ microtasks = <<>>

\* the catch of main (lines 155-158); main returns, and the process will exit
\* with status 0 once the event loop is empty
ScanMainCatch(message) ==
    /\ scanErrorLog' = scanErrorLog \cup {[address |-> 0, error |-> message]}
    /\ scanPc' = "done"
    /\ scanExitCode' = 0

\* checkWallet of item k has moved to t2: its logging, and the job that
\* settles p once it has returned
TaskMoves(k, t2, queue) ==
    /\ task' = [task EXCEPT ![k] = t2]
    /\ scanErrorLog' =
        IF t2.outcome = "error"
        THEN scanErrorLog \cup {[address |-> walletList[k].address,
                                   error |-> t2.error]}
        ELSE scanErrorLog
    /\ scanTransactionLog' =
        IF t2.outcome = "record"
        THEN scanTransactionLog \cup {t2.result.value}
        ELSE scanTransactionLog
    /\ microtasks' =
        IF t2.pc = "returned" THEN Append(queue, Job("settleP", k, TRUE))
        ELSE queue

\* lines 79-91: the wallets file is read; asyncPool is entered
ScanStart ==
    /\ scanPc = "start"
    /\ IF ~walletsReadable
       THEN scanPc' = "exited" /\ scanExitCode' = 1
       ELSE scanPc' = "loop" /\ UNCHANGED scanExitCode
    /\ UNCHANGED <<scanFixed, poolVars, microtasks, task, results, fileWrites,
                   scanLogs, rateLimited, answers>>

\* line 139: what Promise.all(promises) is at the moment it is called:
\* rejected if one of the promises is, fulfilled if all of them are, else
\* pending until they are
PromiseAll_NoWait(promises) ==
    IF \E j \in 1..Len(promises) : p[promises[j]].state = "rejected"
    THEN "rejected"
    ELSE "fulfilled"

PromiseAll(promises) ==
    IF \E j \in 1..Len(promises) : p[promises[j]].state = "rejected"
    THEN "rejected"
    ELSE IF \A j \in 1..Len(promises) : p[promises[j]].state = "fulfilled"
    THEN "fulfilled"
    ELSE "pending"

\* lines 127-139: one turn of the for..of, or the Promise.all after it
PoolLoop ==
    /\ scanPc = "loop"
    /\ IF nextItem < Len(walletList)
       THEN LET k == nextItem + 1
                queue == Append(microtasks, Job("start", k, TRUE))
                executing2 == Append(executing, k)
                settled == {j \in 1..Len(executing2) :
                               k # executing2[j] /\ e[executing2[j]] # "pending"}
            IN  /\ nextItem' = k
                /\ p' = [p EXCEPT ![k].state = "pending"]
                /\ ret' = RetPush(ret, k)
                /\ IF poolLimit <= Len(walletList)
                   THEN /\ e' = [e EXCEPT ![k] = "pending"]
                        /\ executing' = executing2
                        /\ IF PoolIsFull(Len(executing2))
                           THEN /\ scanPc' = "awaitRace"
                                /\ IF settled # {}
                                   THEN /\ raceWatch' = {}
                                        /\ microtasks' =
                                            Append(queue,
                                                   Job("raceReact",
                                                       executing2[CHOOSE j \in settled :
                                                           \A j2 \in settled : j <= j2],
                                                       TRUE))
                                   ELSE /\ raceWatch' =
                                            {executing2[j] : j \in 1..Len(executing2)}
                                        /\ microtasks' = queue
                           ELSE /\ microtasks' = queue
                                /\ UNCHANGED <<scanPc, raceWatch>>
                   ELSE /\ microtasks' = queue
                        /\ UNCHANGED <<e, executing, scanPc, raceWatch>>
                /\ UNCHANGED allState
       ELSE /\ scanPc' = "awaitAll"
            /\ IF PromiseAll(ret) = "rejected"
               THEN /\ allState' = "settled"
                    /\ microtasks' = Append(microtasks, Job("allSettled", 0, FALSE))
               ELSE IF PromiseAll(ret) = "fulfilled"
               THEN /\ allState' = "settled"
                    /\ microtasks' = Append(microtasks, Job("allSettled", 0, TRUE))
               ELSE /\ allState' = "pending"
                    /\ UNCHANGED microtasks
            /\ UNCHANGED <<nextItem, ret, executing, p, e, raceWatch>>
    /\ UNCHANGED <<scanFixed, firstSettled, task, scanMain, scanLogs, rateLimited, answers>>

\* line 128: the job of Promise.resolve().then(() => iteratorFn(item))
PoolStartTask ==
    /\ JobTurn("start")
    /\ LET k == Head(microtasks).k
       IN  TaskMoves(k, CheckWallet(walletList[k]), Tail(microtasks))
    /\ UNCHANGED <<scanFixed, scanPc, poolVars, scanMain, rateLimited, answers>>

\* p takes the outcome of the checkWallet call; its reactions are queued:
\* first e's, then Promise.all's
PoolSettleP ==
    /\ JobTurn("settleP")
    /\ LET k == Head(microtasks).k
           outcome == task[k].result
           eJob == IF e[k] = "pending" THEN <<Job("eThen", k, TRUE)>> ELSE <<>>
           allJob ==
               IF allState # "pending" THEN <<>>
               ELSE IF outcome.state = "rejected"
               THEN <<Job("allSettled", k, FALSE)>>
               ELSE IF \A j \in Items \ {k} : p[j].state = "fulfilled"
               THEN <<Job("allSettled", k, TRUE)>>
               ELSE <<>>
       IN  /\ p' = [p EXCEPT ![k] = outcome]
           /\ microtasks' = Tail(microtasks) \o eJob \o allJob
           /\ allState' = IF allJob # <<>> THEN "settled" ELSE allState
           /\ firstSettled' = IF firstSettled = 0 THEN k ELSE firstSettled
    /\ UNCHANGED <<scanFixed, scanPc, nextItem, ret, executing, e, raceWatch,
                   task, scanMain, scanLogs, rateLimited, answers>>

\* line 132: e = p.then(() => executing.splice(executing.indexOf(e), 1)); a
\* rejected p rejects e without running the callback
PoolEThen ==
    /\ JobTurn("eThen")
    /\ LET k == Head(microtasks).k
       IN  /\ IF p[k].state = "fulfilled"
              THEN /\ executing' = SpliceOne(executing, IndexOf(executing, k))
                   /\ e' = [e EXCEPT ![k] = "fulfilled"]
              ELSE /\ e' = [e EXCEPT ![k] = "rejected"]
                   /\ UNCHANGED executing
           /\ IF k \in raceWatch
              THEN /\ raceWatch' = {}
                   /\ microtasks' = Append(Tail(microtasks), Job("raceReact", k, TRUE))
              ELSE /\ microtasks' = Tail(microtasks)
                   /\ UNCHANGED raceWatch
    /\ UNCHANGED <<scanFixed, scanPc, nextItem, ret, p, allState, firstSettled,
                   task, scanMain, scanLogs, rateLimited, answers>>

\* line 135: Promise.race(executing) settles as its first settled promise
PoolRaceReact ==
    /\ JobTurn("raceReact")
    /\ LET k == Head(microtasks).k
       IN  microtasks' = Append(Tail(microtasks),
                                Job("resume", k, e[k] = "fulfilled"))
    /\ UNCHANGED <<scanFixed, scanPc, poolVars, task, scanMain, scanLogs,
                   rateLimited, answers>>

\* line 135: asyncPool resumes from the await, or throws what the race
\* rejected with, which rejects asyncPool and lands in the catch of main
PoolResume ==
    /\ JobTurn("resume")
    /\ microtasks' = Tail(microtasks)
    /\ IF Head(microtasks).ok
       THEN scanPc' = "loop" /\ UNCHANGED <<scanErrorLog, scanExitCode>>
       ELSE ScanMainCatch(task[Head(microtasks).k].error)
    /\ UNCHANGED <<scanFixed, poolVars, task, results, fileWrites,
                   scanTransactionLog, rateLimited, answers>>

\* lines 139-153: Promise.all(ret) settles and main resumes: the results are
\* filtered and fs.writeFile is called, or the catch of main runs
ScanPoolSettled ==
    /\ JobTurn("allSettled")
    /\ scanPc = "awaitAll"
    /\ microtasks' = Tail(microtasks)
    /\ IF Head(microtasks).ok
       THEN /\ results' = AllValues(ret)
            /\ scanPc' = "awaitWrite"
            /\ UNCHANGED <<scanErrorLog, scanExitCode>>
       ELSE /\ ScanMainCatch("rejected")
            /\ UNCHANGED results
    /\ UNCHANGED <<scanFixed, poolVars, task, fileWrites, scanTransactionLog,
                   rateLimited, answers>>

\* lines 42-51 inside checkWallet: the RPC call of item k settles
TaskRpcSettles(k) ==
    /\ ScanMacrotaskTurn
    /\ task[k].rs.pc = "calling"
    /\ \E outcome \in ScanRpcOutcomes(k, IF task[k].pc = "balance"
                                         THEN ScanBalances ELSE SignatureCounts) :
        /\ TaskMoves(k, CheckWalletContinue(
                            [task[k] EXCEPT !.rs = WithRetryFnSettles(@, outcome)],
                            walletList[k].address),
                     microtasks)
        /\ rateLimited' = IF ~outcome.ok /\ IsRateLimited(outcome.message)
                          THEN rateLimited \cup {k} ELSE rateLimited
        /\ answers' = IF ~outcome.ok THEN answers
                      ELSE IF task[k].pc = "balance"
                      THEN [answers EXCEPT ![k].balance = outcome.value]
                      ELSE [answers EXCEPT ![k].count = outcome.value]
    /\ UNCHANGED <<scanFixed, scanPc, poolVars, scanMain>>

\* line 46 inside checkWallet: the backoff timer of item k fires
TaskTimerFires(k) ==
    /\ ScanMacrotaskTurn
    /\ task[k].rs.pc = "sleeping"
    /\ TaskMoves(k, CheckWalletContinue(
                        CountCalls([task[k] EXCEPT
                                       !.rs = WithRetryTimer(@, DefaultRetries)]),
                        walletList[k].address),
                 microtasks)
    /\ UNCHANGED <<scanFixed, scanPc, poolVars, scanMain, rateLimited, answers>>

\* lines 153-158: fs.writeFile settles
ScanWriteSettles ==
    /\ ScanMacrotaskTurn
    /\ scanPc = "awaitWrite"
    /\ \/ /\ fileWrites' = Append(fileWrites, FilterNonNull(results))
          /\ scanPc' = "done"
          /\ scanExitCode' = 0
          /\ UNCHANGED scanErrorLog
       \/ /\ ScanMainCatch("EACCES")
          /\ UNCHANGED fileWrites
    /\ UNCHANGED <<scanFixed, poolVars, microtasks, task, results,
                   scanTransactionLog, rateLimited, answers>>

ScanNext ==
    \/ ScanStart
    \/ PoolLoop
    \/ PoolStartTask
    \/ PoolSettleP
    \/ PoolEThen
    \/ PoolRaceReact
    \/ PoolResume
    \/ ScanPoolSettled
    \/ \E k \in Items : TaskRpcSettles(k)
    \/ \E k \in Items : TaskTimerFires(k)
    \/ ScanWriteSettles

SpecScan == ScanInit /\ [][ScanNext]_vars

\* every pending RPC call settles, every armed timer fires, every queued job
\* runs and fs.writeFile settles
SpecScanFair == SpecScan /\ WF_vars(ScanNext)

-----------------------------------------------------------------------------
(* Properties of the scan, checked under SpecScan *)

\* the items whose promise p exists and has not settled: every task that was
\* started and has not settled is among them
Unresolved == {k \in Items : p[k].state = "pending"}
Started == {k \in Items : task[k].pc # "unstarted"}

\* asyncPool has returned to main with its results
PoolReturned == scanPc \in {"awaitWrite", "done"} /\ allState = "settled"

C2_FailureDoesNotAbort ==
    /\ \A k \in Items : p[k].state # "rejected" /\ e[k] # "rejected"
    /\ scanPc \in {"awaitWrite", "done"} =>
        /\ PoolReturned
        /\ Len(results) = Len(walletList)
        /\ \A k \in Items :
            /\ task[k].pc = "returned"
            /\ p[k].state = "fulfilled"
            /\ task[k].outcome = "error" => results[k] = NullResult

\* C2 witness: of two wallets one exhausts its retries and the other yields
\* a record; the pool has returned and the record is written
C2_Witness ==
    /\ Len(walletList) = 2
    /\ PoolReturned
    /\ \E k \in Items : task[k].error = MaxRetryMessage
    /\ \E k \in Items : task[k].outcome = "record"
    /\ fileWrites # <<>>
    /\ Len(fileWrites[1]) = 1

\* C3: the array asyncPool returns has the length of the input and its i-th
\* element is what the task of the i-th input returned, whatever the order in
\* which the tasks settled.
C3_ResultsInInputOrder ==
    PoolReturned =>
        /\ Len(results) = Len(walletList)
        /\ \A k \in Items : results[k] = task[k].result.value

\* C3 witness: the task of the second wallet settled first; the first wallet
\* yields a record, the second null
C3_Witness ==
    /\ PoolReturned
    /\ Len(walletList) = 2
    /\ firstSettled = 2
    /\ ~results[1].isNull /\ results[1].address = 1
    /\ results[2].isNull

\* C15: for a wallet whose balance, as the RPC node returned it, is below
\* the configured minimum, getSignaturesForAddress is never called, whatever the
\* other tasks do and however many retries the balance query took.
C15_NoSignaturesBelowMinimum ==
    \A k \in Items :
        (answers[k].balance >= 0 /\ answers[k].balance < ConfiguredMinimum)
        => /\ task[k].signatureCalls = 0
           /\ task[k].pc = "returned"
           /\ answers[k].count = -1

\* C15 witness: the balance query of wallet 1 was rate-limited, then returned
\* a balance one lamport below the minimum; wallet 2 went on to its signatures
C15_Witness ==
    /\ Len(walletList) >= 2
    /\ rateLimited = {1}
    /\ answers[1].balance = ConfiguredMinimum - 1
    /\ task[1].outcome = "belowMinimum"
    /\ task[2].signatureCalls > 0

\* the final result set: const filteredWallets = results.filter(...)
FilteredWallets == FilterNonNull(results)

\* wallet k has a valid address, both of its queries succeeded, its balance
\* is at least the configured minimum and its count lies within [txMin, txMax]
Qualifies(k) ==
    /\ walletList[k].wellFormed
    /\ answers[k].balance >= 0 /\ answers[k].count >= 0
    /\ answers[k].balance >= ConfiguredMinimum
    /\ txMin <= answers[k].count /\ answers[k].count <= txMax

\* the records of wallet k in the final result set
RecordsOf(k) ==
    {j \in 1..Len(FilteredWallets) :
        FilteredWallets[j].address = walletList[k].address}

AllDispatchedAndSettled ==
    /\ nextItem = Len(walletList)
    /\ \A k \in Items : task[k].pc = "returned" /\ p[k].state # "pending"

\* main is past `await asyncPool(...)`: fs.writeFile has been called
WriteFileCalled == scanPc \in {"awaitWrite", "done"}

\* asyncPool returns and the results file is written only after every wallet
\* was dispatched and every task settled; the file is never written twice,
\* and a run that has ended wrote it once unless fs.writeFile itself failed
ReturnsAfterAllSettled ==
    /\ WriteFileCalled \/ fileWrites # <<>> => AllDispatchedAndSettled
    /\ WriteFileCalled => PoolReturned /\ Len(results) = Len(walletList)
    /\ Len(fileWrites) <= 1
    /\ fileWrites # <<>> => scanPc = "done"
    /\ scanPc = "done" =>
          \/ Len(fileWrites) = 1
          \/ [address |-> 0, error |-> "EACCES"] \in scanErrorLog

\* C19: the pool returns, and the results file is written, only after every
\* input wallet was dispatched and every task settled; the file is written
\* once per run; and when every RPC call settles, every run that entered the
\* pool gets there, for every limit >= 1.
C19_ReturnsOnceAllSettled ==
    /\ [](ReturnsAfterAllSettled)
    /\ <>(~walletsReadable \/ scanPc = "done")

\* C19 witness: a limit of 1 and two wallets, the first of which used up its
\* retries; the pool returned and the file was written once
C19_Witness ==
    /\ poolLimit = 1
    /\ Len(walletList) = 2
    /\ scanPc = "done"
    /\ Len(fileWrites) = 1
    /\ task[1].error = MaxRetryMessage
    /\ AllDispatchedAndSettled

=============================================================================
